---- MODULE Spec2Model ----
(***************************************************************************)
(* The turn-processing state machine of the student companion agent       *)
(* (app/agents/student_agent.py) over the profile and conversation store  *)
(* of app/database.py.                                                     *)
(*                                                                         *)
(* Text is a sequence of chunks (strings); the empty sequence is the      *)
(* empty string.  Keywords are chunk sequences and `kw in message` is     *)
(* contiguous sub-sequence matching.  A Python dict is a function on      *)
(* string keys (<<>> is the empty dict); a value that may be None is an   *)
(* Option record.                                                          *)
(***************************************************************************)
EXTENDS Integers, Sequences, FiniteSets, TLC

VARIABLES
    pc,             \* per turn: the graph node that runs next, or idle/END/failed
    state,          \* per turn: the StudentState channels of the running graph
    before,         \* per turn: history, summary, mode and patch before the last node ran
    ran,            \* per turn: the nodes that have run, in order, each with its model calls
    error,          \* per turn: the exception that ended the turn ("" if none)
    profile,        \* the user_profiles row of the wallet
    conversations,  \* the conversations rows of the wallet, oldest first
    clock,          \* logical time of func.now()
    pre,            \* per turn: the stored profile and conversations when it was invoked
    mP,             \* merge harness: the stored row before update_user_profile
    mPatch,         \* merge harness: the updates given to update_user_profile
    mOnce,          \* merge harness: the row after one application
    mTwice,         \* merge harness: the row after a second application
    mPhase,         \* merge harness: how many applications have been made
    jText,          \* parser harness: the text given to _safe_extract_json
    jResult,        \* parser harness: what _safe_extract_json gave for it
    jPhase          \* parser harness: 1 once the parser has been applied

vars == <<pc, state, before, ran, error, profile, conversations, clock, pre,
          mP, mPatch, mOnce, mTwice, mPhase, jText, jResult, jPhase>>

turnVars == <<pc, state, before, ran, error, profile, conversations, clock, pre>>
mergeVars == <<mP, mPatch, mOnce, mTwice, mPhase>>
parseVars == <<jText, jResult, jPhase>>

----------------------------------------------------------------------------
(* Program constants *)

SUMMARY_THRESHOLD == 15
RECENT_TAIL == 5
HISTORY_LIMIT == 10

(* Bounds of the model *)

MaxOver == 1          \* supplied histories run up to SUMMARY_THRESHOLD + MaxOver entries
MaxCompleted == 2     \* completed-course lists have up to MaxCompleted entries
MaxStoredTurns == 8   \* the store holds up to MaxStoredTurns earlier exchanges
MaxChallenges == 2    \* learning_challenges lists have up to MaxChallenges entries
MaxTextLen == 5       \* texts given to the parser harness have up to MaxTextLen chunks
MaxStoredRoles == 1   \* a stored career_context names up to MaxStoredRoles target roles
MaxTurns == 3         \* a session of turns persists up to MaxTurns turns

Turns == {1, 2}
SeqTurns == {1}

----------------------------------------------------------------------------
(* Values *)

None == [some |-> FALSE]
Some(v) == [some |-> TRUE, v |-> v]

\* Python truthiness of an optional int / list / dict / text
TruthyInt(o) == o.some /\ o.v # 0
TruthySeq(o) == o.some /\ Len(o.v) > 0
TruthyDict(o) == o.some /\ DOMAIN o.v # {}

\* JSON values held in profile mappings
JNull == [t |-> "null", s |-> "", l |-> <<>>]
JStr(s) == [t |-> "str", s |-> s, l |-> <<>>]
JList(l) == [t |-> "list", s |-> "", l |-> l]
Truthy(j) == CASE j.t = "null" -> FALSE
               [] j.t = "str" -> j.s # ""
               [] j.t = "list" -> j.l # <<>>
               [] OTHER -> TRUE

Get(d, k, default) == IF k \in DOMAIN d THEN d[k] ELSE default

Range(s) == {s[i] : i \in DOMAIN s}

----------------------------------------------------------------------------
(* Text: str.lower() and the `in` operator *)

LowerChunk(c) ==
    CASE c = "Can you explain " -> "can you explain "
      [] c = "I" -> "i"
      [] c = "I'm " -> "i'm "
      [] c = "Career" -> "career"
      [] c = "PROGRESS" -> "progress"
      [] c = "What" -> "what"
      [] c = "How" -> "how"
      [] c = "Stuck" -> "stuck"
      [] OTHER -> c

Lower(text) == [i \in DOMAIN text |-> LowerChunk(text[i])]

\* kw in text
Contains(kw, text) ==
    \E i \in 0..(Len(text) - Len(kw)) :
        \A j \in 1..Len(kw) : text[i + j] = kw[j]

\* any(kw in text for kw in kws)
AnyIn(kws, text) == \E kw \in kws : Contains(kw, text)

KW_COURSE_PROGRESS ==
    { <<"progress">>, <<"how", " ", "am", " ", "i", " ", "doing">>, <<"stats">> }
KW_COURSE_NEXT ==
    { <<"what", " ", "next">>, <<"recommend">>, <<"what", " ", "should", " ", "i">> }
KW_COURSE_LEARN ==
    { <<"what", " ", "should", " ", "i", " ", "learn">>, <<"what", " ", "course">> }
KW_PROGRESS == { <<"progress">>, <<"completed">>, <<"achievement">> }
KW_CAREER ==
    { <<"career">>, <<"job">>, <<"become", " ", "a">>, <<"work", " ", "as">> }
KW_DIFFICULTY ==
    { <<"don't", " ", "understand">>, <<"confused">>, <<"stuck">>, <<"difficult">> }

Modes == {"onboarding", "career", "learning", "progress", "recommendation", "general"}

----------------------------------------------------------------------------
(* determine_mode *)

\* A classifier that asks for the onboarding payload only after the
\* first-contact rule.
DetermineModeFunnelFirst(s) ==
    LET message == Lower(s.last_message) IN
    IF ~TruthySeq(s.completed_courses)
          /\ DOMAIN Get(s.user_profile, "career_context", <<>>) = {} THEN "career"
    ELSE IF TruthyDict(s.onboarding_data) THEN "onboarding"
    ELSE IF TruthyInt(s.current_course_id) THEN "learning"
    ELSE "general"

\* A classifier that looks at the active course before the first-contact rule.
DetermineModeCourseFirst(s) ==
    LET message == Lower(s.last_message) IN
    IF TruthyDict(s.onboarding_data) THEN "onboarding"
    ELSE IF TruthyInt(s.current_course_id) THEN
        IF AnyIn(KW_COURSE_PROGRESS, message) THEN "progress"
        ELSE IF AnyIn(KW_COURSE_NEXT, message) THEN "recommendation"
        ELSE IF AnyIn(KW_COURSE_LEARN, message) THEN "recommendation"
        ELSE "learning"
    ELSE IF ~TruthySeq(s.completed_courses)
          /\ DOMAIN Get(s.user_profile, "career_context", <<>>) = {} THEN "career"
    ELSE IF AnyIn(KW_PROGRESS, message) THEN "progress"
    ELSE IF AnyIn(KW_CAREER, message) THEN "career"
    ELSE "general"

\* A classifier that tries the career keywords before the progress keywords
\* when no course is active.
DetermineModeCareerFirst(s) ==
    LET message == Lower(s.last_message) IN
    IF TruthyDict(s.onboarding_data) THEN "onboarding"
    ELSE IF ~TruthySeq(s.completed_courses)
          /\ DOMAIN Get(s.user_profile, "career_context", <<>>) = {} THEN "career"
    ELSE IF TruthyInt(s.current_course_id) THEN
        IF AnyIn(KW_COURSE_PROGRESS, message) THEN "progress"
        ELSE IF AnyIn(KW_COURSE_NEXT, message) THEN "recommendation"
        ELSE IF AnyIn(KW_COURSE_LEARN, message) THEN "recommendation"
        ELSE "learning"
    ELSE IF AnyIn(KW_CAREER, message) THEN "career"
    ELSE IF AnyIn(KW_PROGRESS, message) THEN "progress"
    ELSE "general"

\* A classifier that answers with the name of the graph node instead of the
\* mode for recommendations.
DetermineModeNodeName(s) ==
    LET message == Lower(s.last_message) IN
    IF TruthyDict(s.onboarding_data) THEN "onboarding"
    ELSE IF ~TruthySeq(s.completed_courses)
          /\ DOMAIN Get(s.user_profile, "career_context", <<>>) = {} THEN "career"
    ELSE IF TruthyInt(s.current_course_id) THEN
        IF AnyIn(KW_COURSE_PROGRESS, message) THEN "progress"
        ELSE IF AnyIn(KW_COURSE_NEXT, message) THEN "recommend"
        ELSE IF AnyIn(KW_COURSE_LEARN, message) THEN "recommend"
        ELSE "learning"
    ELSE IF AnyIn(KW_PROGRESS, message) THEN "progress"
    ELSE IF AnyIn(KW_CAREER, message) THEN "career"
    ELSE "general"

DetermineMode(s) ==
    LET message == Lower(s.last_message) IN
    IF TruthyDict(s.onboarding_data) THEN "onboarding"
    ELSE IF ~TruthySeq(s.completed_courses)
          /\ DOMAIN Get(s.user_profile, "career_context", <<>>) = {} THEN "career"
    ELSE IF TruthyInt(s.current_course_id) THEN
        IF AnyIn(KW_COURSE_PROGRESS, message) THEN "progress"
        ELSE IF AnyIn(KW_COURSE_NEXT, message) THEN "recommendation"
        ELSE IF AnyIn(KW_COURSE_LEARN, message) THEN "recommendation"
        ELSE "learning"
    ELSE IF AnyIn(KW_PROGRESS, message) THEN "progress"
    ELSE IF AnyIn(KW_CAREER, message) THEN "career"
    ELSE "general"

----------------------------------------------------------------------------
(* The store: app/database.py *)

NoRow ==
    [exists |-> FALSE, email |-> JNull, display_name |-> JNull,
     career_context |-> <<>>, skill_profile |-> <<>>, learning_preferences |-> <<>>,
     learning_challenges |-> <<>>, total_conversations |-> 0, last_active |-> 0]

\* create_user_profile(db, wallet): a row with the column defaults
\* (last_active 0 stands for NULL)
CreateUserProfile == [NoRow EXCEPT !.exists = TRUE]

\* get_user_profile(db, wallet) or {}
GetUserProfile(row) ==
    IF ~row.exists THEN <<>>
    ELSE [wallet_address |-> "0xTestWallet", email |-> row.email,
          display_name |-> row.display_name,
          career_context |-> row.career_context,
          skill_profile |-> row.skill_profile,
          learning_preferences |-> row.learning_preferences,
          learning_challenges |-> row.learning_challenges,
          total_conversations |-> row.total_conversations,
          last_active |-> row.last_active]

\* get_conversation_history(db, wallet, limit): the newest `limit` rows, oldest
\* first, each with its created_at timestamp
GetConversationHistory(rows, limit) ==
    LET n == Len(rows)
        from == IF n > limit THEN n - limit + 1 ELSE 1
    IN [i \in 1..(n - from + 1) |->
            [role |-> rows[from + i - 1].role,
             content |-> rows[from + i - 1].content,
             created_at |-> TRUE]]

\* dict.update
DictUpdate(d, u) ==
    [k \in DOMAIN d \cup DOMAIN u |-> IF k \in DOMAIN u THEN u[k] ELSE d[k]]

\* current = profile.field or {}; current.update(u); profile.field = current
\* on a column declared Column(JSON) (no mutation tracking): the assignment is
\* written at commit only if the assigned value differs from the loaded one.
\* A non-empty stored dict is truthy, so `current` is the loaded object itself,
\* changed in place: old and new value are the same object, the column is left
\* out of the UPDATE and db.refresh reloads the stored value.  An empty stored
\* dict is falsy, so `current` is a new dict and the assignment is written.
MergeMapping(stored, u) ==
    IF stored = <<>> THEN DictUpdate(<<>>, u) ELSE stored

\* the orders list(set(...)) can give the entries of a set
Orderings(S) ==
    {q \in [1..Cardinality(S) -> S] : \A i, j \in 1..Cardinality(S) : q[i] = q[j] => i = j}

\* A merge that stores only the entries the stored list does not hold yet.
MergeChallengesNewOnly(current, new) ==
    Orderings(Range(new) \ Range(current))

\* A merge that stores the patch list in place of the stored one.
MergeChallengesReplace(current, new) == Orderings(Range(new))

\* A merge that concatenates the two lists as they are.
MergeChallengesConcat(current, new) == {current \o new}

\* list(set(current_challenges + new_challenges))
MergeChallenges(current, new) == Orderings(Range(current \o new))

\* update_user_profile(db, wallet, updates): the rows it can leave
UpdateUserProfile(row, updates, now) ==
    LET p0 == IF row.exists THEN row ELSE CreateUserProfile
        p1 == IF "career_context" \in DOMAIN updates
              THEN [p0 EXCEPT !.career_context =
                        MergeMapping(p0.career_context, updates.career_context)]
              ELSE p0
        p2 == IF "skill_profile" \in DOMAIN updates
              THEN [p1 EXCEPT !.skill_profile =
                        MergeMapping(p1.skill_profile, updates.skill_profile)]
              ELSE p1
        p3 == IF "learning_preferences" \in DOMAIN updates
              THEN [p2 EXCEPT !.learning_preferences =
                        MergeMapping(p2.learning_preferences, updates.learning_preferences)]
              ELSE p2
        p4 == IF "email" \in DOMAIN updates
              THEN [p3 EXCEPT !.email = updates.email] ELSE p3
        p5 == IF "display_name" \in DOMAIN updates
              THEN [p4 EXCEPT !.display_name = updates.display_name] ELSE p4
        p6 == [p5 EXCEPT !.last_active = now]
    IN IF "learning_challenges" \in DOMAIN updates
       THEN {[p6 EXCEPT !.learning_challenges = c] :
                c \in MergeChallenges(p6.learning_challenges, updates.learning_challenges)}
       ELSE {p6}

\* save_conversation(db, wallet, role, content): the new conversations rows
SaveConversationRows(rows, role, content) ==
    Append(rows, [role |-> role, content |-> content])

\* A save that touches last_active but not the count.
SaveConversationNoCount(row, now) ==
    IF row.exists THEN [row EXCEPT !.last_active = now] ELSE row

\* save_conversation: the profile row after the count update
SaveConversationProfile(row, now) ==
    IF row.exists
    THEN [row EXCEPT !.total_conversations = @ + 1, !.last_active = now]
    ELSE row

----------------------------------------------------------------------------
(* Model responses and _extract_text_from_response *)

StrContent(t) == [kind |-> "str", text |-> t, blocks |-> <<>>]
BlocksContent(bs) == [kind |-> "blocks", text |-> <<>>, blocks |-> bs]
\* a content that is neither a str nor a list; text is its str()
OtherContent(t) == [kind |-> "other", text |-> t, blocks |-> <<>>]

\* content blocks: a dict with a type (and a text), or a bare str
TextBlock(t) == [type |-> "text", text |-> t]
ToolBlock == [type |-> "tool_use", text |-> <<"{tool input}">>]
StrBlock(t) == [type |-> "str", text |-> t]

RECURSIVE JoinLines(_)
\* "\n".join(parts)
JoinLines(parts) ==
    IF parts = <<>> THEN <<>>
    ELSE IF Len(parts) = 1 THEN parts[1]
    ELSE parts[1] \o <<"\n">> \o JoinLines(Tail(parts))

RECURSIVE TextParts(_)
TextParts(blocks) ==
    IF blocks = <<>> THEN <<>>
    ELSE IF Head(blocks).type \in {"text", "str"}
         THEN <<Head(blocks).text>> \o TextParts(Tail(blocks))
         ELSE TextParts(Tail(blocks))

ExtractTextFromResponse(content) ==
    IF content.kind = "str" THEN content.text
    ELSE IF content.kind = "blocks" THEN JoinLines(TextParts(content.blocks))
    ELSE content.text

\* what the model can answer to a conversational or a summary prompt
ReplyContents ==
    { StrContent(<<"A smart contract is code on a blockchain.">>),
      BlocksContent(<<TextBlock(<<"You are making progress.">>), ToolBlock,
                      StrBlock(<<"Keep going.">>)>>) }

----------------------------------------------------------------------------
(* Turn inputs *)

Messages ==
    { <<"Can you explain ", "what", " ", "a smart contract is?">>,
      <<"I", " ", "want to ", "become", " ", "a", " ", "blockchain developer">>,
      <<"I'm ", "stuck", " on this">>,
      <<"what", "'s my ", "progress">>,
      <<"Career", " onboarding form submitted">>,
      <<"PROGRESS", "? ", "what", " ", "next">>,
      <<"what", " ", "next">>,
      <<"What", " ", "should", " ", "I", " ", "learn", "?">>,
      <<"what", " ", "course", "?">>,
      <<"How", " ", "am", " ", "I", " ", "doing">>,
      <<"stats">>,
      <<"completed">>,
      <<"achievement">>,
      <<"job", "s">>,
      <<"work", " ", "as", " a dev">>,
      <<"recommend", "ation">>,
      <<"job", " ", "progress">> }

SampleForm ==
    [currentRole |-> JStr("Software Developer"),
     technicalLevel |-> JStr("intermediate"),
     programmingLanguages |-> JList(<<"Python", "JavaScript">>),
     targetRole |-> JList(<<"Smart Contract Developer">>),
     careerTimeline |-> JStr("12")]

OnboardingPayloads == {None, Some(SampleForm)}

Course(i) == [course_id |-> i, title |-> <<"Course ", ToString(i)>>]
CourseList(n) == [i \in 1..n |-> Course(i)]
CompletedLists == {None} \cup {Some(CourseList(n)) : n \in 0..MaxCompleted}

ChapterTitle == <<"Introduction to Smart Contracts">>

\* (current_course_id, current_chapter_title) of the initial state
LearningContexts ==
    { [id |-> None, title |-> None],
      [id |-> Some(0), title |-> Some(ChapterTitle)],
      [id |-> Some(1), title |-> None],
      [id |-> Some(1), title |-> Some(ChapterTitle)] }

\* a history the caller hands in: plain role/content entries
SuppliedHistory(n) ==
    [i \in 1..n |->
        [role |-> IF i % 2 = 1 THEN "user" ELSE "assistant",
         content |-> <<"earlier ", ToString(i)>>,
         created_at |-> FALSE]]

PriorSummary == <<"User wants to become a developer.">>

InitialState(history, summary, cc, lc, m, ob) ==
    [user_profile |-> <<>>,
     conversation_history |-> history,
     conversation_summary |-> summary,
     completed_courses |-> cc,
     current_course_id |-> lc.id,
     current_chapter_title |-> lc.title,
     last_message |-> m,
     mode |-> "general",
     onboarding_data |-> ob,
     onboarding_results |-> None,
     response |-> StrContent(<<>>),
     profile_updates |-> <<>>]

\* the initial_state dicts the endpoints and the tests give to agent.invoke:
\* empty history and summary
FreshStates ==
    { InitialState(<<>>, <<>>, cc, lc, m, ob) :
        cc \in CompletedLists, lc \in LearningContexts, m \in Messages,
        ob \in OnboardingPayloads }

ResumedMessages ==
    { <<"Can you explain ", "what", " ", "a smart contract is?">>,
      <<"what", "'s my ", "progress">> }

\* initial_state dicts of a caller that hands in a long session: a history
\* around the summary threshold and the summary so far
ResumedStates ==
    { InitialState(SuppliedHistory(n), PriorSummary, cc, lc, m, None) :
        n \in (SUMMARY_THRESHOLD - 1)..(SUMMARY_THRESHOLD + MaxOver),
        cc \in {None, Some(CourseList(1))},
        lc \in {[id |-> None, title |-> None],
                [id |-> Some(1), title |-> Some(ChapterTitle)]},
        m \in ResumedMessages }

InitialStates == FreshStates \cup ResumedStates

\* the channels before any input is written
Blank ==
    [user_profile |-> <<>>, conversation_history |-> <<>>,
     conversation_summary |-> <<>>, completed_courses |-> None,
     current_course_id |-> None, current_chapter_title |-> None,
     last_message |-> <<>>, mode |-> "", onboarding_data |-> None,
     onboarding_results |-> None, response |-> StrContent(<<>>),
     profile_updates |-> <<>>]

(* Stored states a turn can start from *)

StoredRows(n) ==
    [i \in 1..n |->
        [role |-> IF i % 2 = 1 THEN "user" ELSE "assistant",
         content |-> <<"stored ", ToString(i)>>]]

CareerContext == [target_role |-> JList(<<"Smart Contract Developer">>)]

\* (profile row, conversations rows): no profile yet; a profile just created;
\* a profile after one earlier exchange; a profile with a career context after
\* MaxStoredTurns earlier exchanges
StoredStates ==
    { [profile |-> NoRow, conversations |-> <<>>],
      [profile |-> CreateUserProfile, conversations |-> <<>>],
      [profile |-> [CreateUserProfile EXCEPT !.total_conversations = 2,
                                             !.last_active = 1],
       conversations |-> StoredRows(2)],
      [profile |-> [CreateUserProfile EXCEPT !.career_context = CareerContext,
                                             !.total_conversations = 2 * MaxStoredTurns,
                                             !.last_active = 1],
       conversations |-> StoredRows(2 * MaxStoredTurns)] }

----------------------------------------------------------------------------
(* The graph: channels, nodes and edges *)

\* A node's returned dict is written to the channels; conversation_history is
\* Annotated[list, operator.add], so what a node returns for it is added to
\* the channel's value.
Commit(cur, out) ==
    [out EXCEPT !.conversation_history = cur.conversation_history \o out.conversation_history]

\* Conditional edges that send the career mode to the general handler.
RouteMapCareerToGeneral ==
    [onboarding |-> "onboarding_mode", career |-> "general_mode",
     learning |-> "learning_mode", progress |-> "progress_mode",
     recommendation |-> "recommend_mode", general |-> "general_mode"]

\* the conditional edges after determine_mode
RouteMap ==
    [onboarding |-> "onboarding_mode", career |-> "career_mode",
     learning |-> "learning_mode", progress |-> "progress_mode",
     recommendation |-> "recommend_mode", general |-> "general_mode"]

Route(mode) == IF mode \in DOMAIN RouteMap THEN RouteMap[mode] ELSE "no_edge"

\* self.llm.invoke(messages): it raises, or answers with one of `contents`
LLMOutcomes(contents) ==
    {[ok |-> FALSE, content |-> StrContent(<<>>)]}
    \cup {[ok |-> TRUE, content |-> c] : c \in contents}

\* what is kept of the channels as they were before a node ran
Snapshot(s) ==
    [conversation_history |-> s.conversation_history,
     conversation_summary |-> s.conversation_summary,
     mode |-> s.mode,
     profile_updates |-> s.profile_updates]

\* node `node` of turn t returned `out` after `calls` model calls
Advance(t, node, out, next, calls) ==
    /\ state' = [state EXCEPT ![t] = Commit(state[t], out)]
    /\ before' = [before EXCEPT ![t] = Snapshot(state[t])]
    /\ ran' = [ran EXCEPT ![t] = Append(@, [node |-> node, calls |-> calls])]
    /\ pc' = [pc EXCEPT ![t] = next]
    /\ UNCHANGED error

\* node `node` of turn t raised `err` after `calls` model calls: graph.invoke raises
Raise(t, node, err, calls) ==
    /\ pc' = [pc EXCEPT ![t] = "failed"]
    /\ error' = [error EXCEPT ![t] = err]
    /\ before' = [before EXCEPT ![t] = Snapshot(state[t])]
    /\ ran' = [ran EXCEPT ![t] = Append(@, [node |-> node, calls |-> calls])]
    /\ UNCHANGED state

\* agent.invoke(initial_state): the input is written to the channels
Invoke(t, init) ==
    /\ pc[t] = "idle"
    /\ pc' = [pc EXCEPT ![t] = "load_context"]
    /\ state' = [state EXCEPT ![t] = Commit(Blank, init)]
    /\ before' = [before EXCEPT ![t] = Snapshot(Blank)]
    /\ pre' = [pre EXCEPT ![t] = [profile |-> profile, conversations |-> conversations]]
    /\ UNCHANGED <<ran, error, profile, conversations, clock, mergeVars, parseVars>>

LoadContext(t) ==
    /\ pc[t] = "load_context"
    /\ profile' = IF profile.exists THEN profile ELSE CreateUserProfile
    /\ Advance(t, "load_context",
               [state[t] EXCEPT
                    !.user_profile = GetUserProfile(profile'),
                    !.conversation_history =
                        GetConversationHistory(conversations, HISTORY_LIMIT),
                    !.profile_updates = <<>>],
               "summarize_if_needed", 0)
    /\ UNCHANGED <<conversations, clock, pre, mergeVars, parseVars>>

\* history[-5:] and history[:-5]
Recent(history) == SubSeq(history, Len(history) - RECENT_TAIL + 1, Len(history))
ToSummarize(history) == SubSeq(history, 1, Len(history) - RECENT_TAIL)

\* json.dumps(to_summarize) raises on a datetime
Serializable(entries) == \A i \in DOMAIN entries : ~entries[i].created_at

\* what summarize_conversation_if_needed returns when the model answers `content`
SummarizeConversationIfNeeded(s, content) ==
    IF Len(s.conversation_history) > SUMMARY_THRESHOLD
    THEN [s EXCEPT !.conversation_history = Recent(s.conversation_history),
                   !.conversation_summary = ExtractTextFromResponse(content)]
    ELSE s

SummarizeIfNeeded(t) ==
    /\ pc[t] = "summarize_if_needed"
    /\ LET s == state[t] IN
       IF Len(s.conversation_history) > SUMMARY_THRESHOLD
       THEN IF ~Serializable(ToSummarize(s.conversation_history))
            THEN Raise(t, "summarize_if_needed", "TypeError", 0)
            ELSE \E r \in LLMOutcomes(ReplyContents) :
                    IF r.ok
                    THEN Advance(t, "summarize_if_needed",
                                 SummarizeConversationIfNeeded(s, r.content),
                                 "determine_mode", 1)
                    ELSE Raise(t, "summarize_if_needed", "ModelError", 1)
       ELSE Advance(t, "summarize_if_needed",
                    SummarizeConversationIfNeeded(s, StrContent(<<>>)),
                    "determine_mode", 0)
    /\ UNCHANGED <<profile, conversations, clock, pre, mergeVars, parseVars>>

DetermineModeNode(t) ==
    /\ pc[t] = "determine_mode"
    /\ LET mode == DetermineMode(state[t])
           out == [state[t] EXCEPT !.mode = mode]
       IN \* the node's write is applied, then the conditional edge is looked up
          IF Route(mode) = "no_edge"
          THEN /\ state' = [state EXCEPT ![t] = Commit(state[t], out)]
               /\ before' = [before EXCEPT ![t] = Snapshot(state[t])]
               /\ ran' = [ran EXCEPT ![t] =
                            Append(@, [node |-> "determine_mode", calls |-> 0])]
               /\ pc' = [pc EXCEPT ![t] = "failed"]
               /\ error' = [error EXCEPT ![t] = "KeyError"]
          ELSE Advance(t, "determine_mode", out, Route(mode), 0)
    /\ UNCHANGED <<profile, conversations, clock, pre, mergeVars, parseVars>>

----------------------------------------------------------------------------
(* JSON in model text.  A JSON text is a chunk sequence: "{" and "}", member
   chunks ("key: value"), "," between members, scalar chunks, white space, and
   the double quotes that open and close a string. *)

JNum(n) == [t |-> "num", s |-> ToString(n), l |-> <<>>]

PObj(d) == [t |-> "obj", obj |-> d, val |-> JNull]
PVal(j) == [t |-> "val", obj |-> <<>>, val |-> j]
PError == [t |-> "error", obj |-> <<>>, val |-> JNull]
\* Python None
PNone == PVal(JNull)

\* Python truthiness of a parsed value
TruthyParsed(p) ==
    CASE p.t = "obj" -> DOMAIN p.obj # {}
      [] p.t = "val" -> IF p.val.t = "num" THEN p.val.s # "0" ELSE Truthy(p.val)
      [] OTHER -> FALSE

MemberOf(c) ==
    CASE c = "target_role: [Blockchain Developer]" ->
            [k |-> "target_role", v |-> JList(<<"Blockchain Developer">>)]
      [] c = "target_role: null" -> [k |-> "target_role", v |-> JNull]
      [] c = "timeline: 6" -> [k |-> "timeline", v |-> JStr("6")]
      [] c = "motivation: (empty)" -> [k |-> "motivation", v |-> JStr("")]
      [] c = "motivation: growth" -> [k |-> "motivation", v |-> JStr("growth")]
      [] c = "note: hi" -> [k |-> "note", v |-> JStr("hi")]
      [] c = "careerProfile: Developer moving into Web3." ->
            [k |-> "careerProfile", v |-> JStr("Developer moving into Web3.")]
      [] c = "careerProfile: null" -> [k |-> "careerProfile", v |-> JNull]
      [] c = "courseMatchAnalysis: Good fit." ->
            [k |-> "courseMatchAnalysis", v |-> JStr("Good fit.")]
      [] c = "courseMatchAnalysis: [Good fit]" ->
            [k |-> "courseMatchAnalysis", v |-> JList(<<"Good fit">>)]
      [] c = "suggestedCourses: [Solidity 101]" ->
            [k |-> "suggestedCourses", v |-> JList(<<"Solidity 101">>)]
      [] c = "suggestedCourses: null" -> [k |-> "suggestedCourses", v |-> JNull]
      [] c = "additionalNotes: Start soon." ->
            [k |-> "additionalNotes", v |-> JStr("Start soon.")]
      [] OTHER -> [k |-> "", v |-> JNull]

IsMember(c) == MemberOf(c).k # ""

ScalarOf(c) ==
    CASE c = "[1]" -> JList(<<"1">>)
      [] c = "[]" -> JList(<<>>)
      [] c = "null" -> JNull
      [] c = "42" -> JNum(42)
      [] c = "(quoted string)" -> JStr("quoted string")
      [] OTHER -> [t |-> "", s |-> "", l |-> <<>>]

IsScalar(c) == ScalarOf(c).t # ""

Quote == "\""

\* the str a JSON string literal spells, kept as the chunks between its quotes
JChunks(q) == [t |-> "str", s |-> IF q = <<>> THEN "" ELSE "(chunks)", l |-> q]

WhiteSpace == {" ", "\n"}

RECURSIVE LStrip(_, _)
LStrip(text, chunks) ==
    IF text # <<>> /\ Head(text) \in chunks THEN LStrip(Tail(text), chunks) ELSE text

RECURSIVE RStrip(_, _)
RStrip(text, chunks) ==
    IF text # <<>> /\ text[Len(text)] \in chunks
    THEN RStrip(SubSeq(text, 1, Len(text) - 1), chunks)
    ELSE text

\* str.strip() of white space
StripWs(text) == RStrip(LStrip(text, WhiteSpace), WhiteSpace)

\* json.loads(text)
JsonLoads(text) ==
    LET t == StripWs(text)
        n == Len(t)
        inner == SelectSeq(SubSeq(t, 2, n - 1), LAMBDA c : c \notin WhiteSpace)
        wellFormed ==
            /\ Len(inner) = 0 \/ Len(inner) % 2 = 1
            /\ \A i \in DOMAIN inner :
                  IF i % 2 = 1 THEN IsMember(inner[i]) ELSE inner[i] = ","
        keys == {MemberOf(inner[i]).k : i \in {j \in DOMAIN inner : j % 2 = 1}}
        lastOf(k) ==
            CHOOSE i \in DOMAIN inner :
                /\ i % 2 = 1 /\ MemberOf(inner[i]).k = k
                /\ \A j \in DOMAIN inner :
                      (j % 2 = 1 /\ MemberOf(inner[j]).k = k) => j <= i
    IN IF n >= 2 /\ t[1] = "{" /\ t[n] = "}" /\ wellFormed
       THEN PObj([k \in keys |-> MemberOf(inner[lastOf(k)]).v])
       ELSE IF n = 1 /\ IsScalar(t[1]) THEN PVal(ScalarOf(t[1]))
       ELSE IF /\ n >= 2 /\ t[1] = Quote /\ t[n] = Quote
               /\ \A i \in 2..(n - 1) : t[i] \notin {Quote, "\n"}
       THEN PVal(JChunks(SubSeq(t, 2, n - 1)))
       ELSE PError

\* A parser without the except clause: a failed json.loads reaches the caller.
SafeExtractJsonNoCatch(text) ==
    LET opens == {i \in DOMAIN text : text[i] = "{"}
        closes == {i \in DOMAIN text : text[i] = "}"}
        first == CHOOSE i \in opens : \A j \in opens : i <= j
        last == CHOOSE i \in closes : \A j \in closes : j <= i
    IN IF opens # {} /\ closes # {} /\ first < last
       THEN JsonLoads(SubSeq(text, first, last))
       ELSE JsonLoads(StripWs(text))

\* _safe_extract_json(text): re.search(r"(\{.*\})", text, re.DOTALL) takes the
\* span from the first "{" to the last "}"; any exception gives None
SafeExtractJson(text) ==
    LET opens == {i \in DOMAIN text : text[i] = "{"}
        closes == {i \in DOMAIN text : text[i] = "}"}
        first == CHOOSE i \in opens : \A j \in opens : i <= j
        last == CHOOSE i \in closes : \A j \in closes : j <= i
        matched == opens # {} /\ closes # {} /\ first < last
        r == IF matched THEN JsonLoads(SubSeq(text, first, last))
             ELSE JsonLoads(StripWs(text))
    IN IF r.t = "error" THEN PNone ELSE r

\* text.strip(FENCE + "json").strip(FENCE), FENCE being three backquotes: the
\* backquote and the letters j, s, o, n are taken off both ends; a chunk made
\* of them goes, a chunk that starts with one of them loses its first characters
\* ("[fence]" stands for the three backquotes)
FenceChunks == {"[fence]json", "[fence]", "json"}

LeadTrim(c) ==
    CASE c = "null" -> "ull"
      [] c = "no new info" -> " new info"
      [] OTHER -> c

StripFence(text) ==
    LET t == RStrip(LStrip(text, FenceChunks), FenceChunks)
    IN IF t = <<>> THEN t ELSE <<LeadTrim(Head(t))>> \o Tail(t)

----------------------------------------------------------------------------
(* Mode handlers.  A handler result holds the exception it raised ("" if none),
   the dict it returned and the number of model calls it made. *)

Returned(out, calls) == [err |-> "", out |-> out, calls |-> calls]
Raised(err, s, calls) == [err |-> err, out |-> s, calls |-> calls]

\* what the model can answer to the career extraction prompt
ExtractionContents ==
    { StrContent(<<"{", "}">>),
      StrContent(<<"[fence]json", "\n", "{", "target_role: [Blockchain Developer]", ",",
                   "timeline: 6", "}", "\n", "[fence]">>),
      StrContent(<<"{", "motivation: growth", "}">>),
      StrContent(<<"{", "note: hi", "}">>),
      StrContent(<<"no new info">>),
      StrContent(<<"[1]">>) }

\* what the model can answer to the onboarding prompt
OnboardingContents ==
    { StrContent(<<"{", "careerProfile: Developer moving into Web3.", ",",
                   "courseMatchAnalysis: Good fit.", ",",
                   "suggestedCourses: [Solidity 101]", ",",
                   "additionalNotes: Start soon.", "}">>),
      StrContent(<<"Here you go: ", "{", "careerProfile: null", ",",
                   "suggestedCourses: null", "}", " Hope it helps.">>),
      StrContent(<<"{", "careerProfile: Developer moving into Web3.", ",",
                   "courseMatchAnalysis: [Good fit]", "}">>),
      StrContent(<<"I cannot answer that.">>),
      StrContent(<<"[1]">>) }

\* new_career_data of career_guidance: json.loads of the stripped extraction
\* text, {} on any exception
NewCareerData(content) ==
    IF content.kind # "str" THEN PObj(<<>>)
    ELSE LET p == JsonLoads(StripFence(content.text))
         IN IF p.t = "error" THEN PObj(<<>>) ELSE p

CareerGuidance(s, reply, extraction) ==
    IF ~reply.ok THEN Raised("ModelError", s, 1)
    ELSE IF ~extraction.ok THEN Raised("ModelError", s, 2)
    ELSE
      LET data == NewCareerData(extraction.content)
          existing == Get(s.user_profile, "career_context", <<>>)
          has(k) == data.t = "obj" /\ k \in DOMAIN data.obj /\ Truthy(data.obj[k])
          u1 == IF has("target_role")
                THEN DictUpdate(existing, [target_role |-> data.obj["target_role"]])
                ELSE existing
          u2 == IF has("timeline")
                THEN DictUpdate(u1, [career_timeline |-> data.obj["timeline"]])
                ELSE u1
          u3 == IF has("motivation")
                THEN DictUpdate(u2, [primary_motivation |-> data.obj["motivation"]])
                ELSE u2
      IN IF ~TruthyParsed(data)
         THEN Returned([s EXCEPT !.response = reply.content,
                                 !.profile_updates = <<>>], 2)
         ELSE IF data.t # "obj"
         THEN Raised("AttributeError", s, 2)      \* new_career_data.values()
         ELSE IF \E k \in DOMAIN data.obj : Truthy(data.obj[k])
         THEN Returned([s EXCEPT !.response = reply.content,
                                 !.profile_updates = [career_context |-> u3]], 2)
         ELSE Returned([s EXCEPT !.response = reply.content,
                                 !.profile_updates = <<>>], 2)

\* the reply a JSON value makes: a str, or something that is no str
ContentOfJson(j) ==
    IF j.t = "str" THEN StrContent(IF j.s = "" THEN <<>> ELSE <<j.s>>)
    ELSE OtherContent(<<"(not a string)">>)

OnboardingFallback ==
    [careerProfile |-> JStr("Analysis pending profile review."),
     courseMatchAnalysis |->
        JStr("The selected course aligns with standard industry paths."),
     suggestedCourses |-> JList(<<>>),
     additionalNotes |->
        JStr("Complete the first module to unlock personalized insights.")]

\* recommendations.get(k) or default
OrDefault(d, k, default) ==
    IF k \in DOMAIN d /\ Truthy(d[k]) THEN d[k] ELSE default

\* An onboarding handler that files the form's target role as a patch.
HandleOnboardingStoresForm(s, reply, extraction) ==
    IF ~TruthyDict(s.onboarding_data) THEN CareerGuidance(s, reply, extraction)
    ELSE IF ~reply.ok THEN Raised("ModelError", s, 1)
    ELSE Returned([s EXCEPT !.onboarding_results = Some(OnboardingFallback),
                            !.response = ContentOfJson(OnboardingFallback.careerProfile),
                            !.mode = "onboarding",
                            !.profile_updates =
                                [career_context |->
                                    [target_role |-> s.onboarding_data.v.targetRole]]], 1)

HandleOnboarding(s, reply, extraction) ==
    IF ~TruthyDict(s.onboarding_data) THEN CareerGuidance(s, reply, extraction)
    ELSE IF ~reply.ok THEN Raised("ModelError", s, 1)
    ELSE
      LET parsed == SafeExtractJson(ExtractTextFromResponse(reply.content))
          filled ==
            DictUpdate(parsed.obj,
                [careerProfile |->
                    OrDefault(parsed.obj, "careerProfile", JStr("Summary unavailable.")),
                 courseMatchAnalysis |->
                    OrDefault(parsed.obj, "courseMatchAnalysis",
                              JStr("Analysis unavailable.")),
                 suggestedCourses |->
                    OrDefault(parsed.obj, "suggestedCourses", JList(<<>>)),
                 additionalNotes |->
                    OrDefault(parsed.obj, "additionalNotes", JStr(""))])
          recommendations == IF ~TruthyParsed(parsed) THEN OnboardingFallback ELSE filled
      IN IF TruthyParsed(parsed) /\ parsed.t # "obj"
         THEN Raised("AttributeError", s, 1)      \* recommendations.get
         ELSE Returned([s EXCEPT !.onboarding_results = Some(recommendations),
                                 !.response = ContentOfJson(recommendations.careerProfile),
                                 !.mode = "onboarding"], 1)

DefaultTopic == <<"Current chapter">>

\* A learning handler that never files a challenge.
LearningAssistanceNoPatch(s, reply) ==
    IF ~reply.ok THEN Raised("ModelError", s, 1)
    ELSE Returned([s EXCEPT !.response =
                        StrContent(ExtractTextFromResponse(reply.content)),
                            !.profile_updates = <<>>], 1)

LearningAssistance(s, reply) ==
    IF ~reply.ok THEN Raised("ModelError", s, 1)
    ELSE
      LET text == ExtractTextFromResponse(reply.content)
          challenges == Get(s.user_profile, "learning_challenges", <<>>)
          topic == IF TruthySeq(s.current_chapter_title)
                   THEN s.current_chapter_title.v ELSE DefaultTopic
          appended == IF topic \in Range(challenges) THEN challenges
                      ELSE Append(challenges, topic)
      IN IF AnyIn(KW_DIFFICULTY, Lower(s.last_message))
         THEN \* the list appended to is the one inside user_profile
              Returned([s EXCEPT !.response = StrContent(text),
                                 !.user_profile =
                                    DictUpdate(s.user_profile,
                                               [learning_challenges |-> appended]),
                                 !.profile_updates = [learning_challenges |-> appended]], 1)
         ELSE Returned([s EXCEPT !.response = StrContent(text),
                                 !.profile_updates = <<>>], 1)

\* progress_review and course_recommendation iterate completed_courses
ProgressReview(s, reply) ==
    IF ~s.completed_courses.some THEN Raised("TypeError", s, 0)
    ELSE IF ~reply.ok THEN Raised("ModelError", s, 1)
    ELSE Returned([s EXCEPT !.response =
                        StrContent(ExtractTextFromResponse(reply.content))], 1)

CourseRecommendation(s, reply) ==
    IF ~s.completed_courses.some THEN Raised("TypeError", s, 0)
    ELSE IF ~reply.ok THEN Raised("ModelError", s, 1)
    ELSE Returned([s EXCEPT !.response =
                        StrContent(ExtractTextFromResponse(reply.content))], 1)

\* A general handler that files the conversation as a challenge.
GeneralConversationWithPatch(s, reply) ==
    IF ~reply.ok THEN Raised("ModelError", s, 1)
    ELSE Returned([s EXCEPT !.response =
                        StrContent(ExtractTextFromResponse(reply.content)),
                            !.profile_updates =
                                [learning_challenges |-> <<DefaultTopic>>]], 1)

GeneralConversation(s, reply) ==
    IF ~reply.ok THEN Raised("ModelError", s, 1)
    ELSE Returned([s EXCEPT !.response =
                        StrContent(ExtractTextFromResponse(reply.content))], 1)

\* a handler node of turn t ended with result res
Handled(t, node, res) ==
    IF res.err = ""
    THEN Advance(t, node, res.out, "update_profile", res.calls)
    ELSE Raise(t, node, res.err, res.calls)

OnboardingMode(t) ==
    /\ pc[t] = "onboarding_mode"
    /\ \E r \in LLMOutcomes(OnboardingContents) :
          Handled(t, "onboarding_mode", HandleOnboarding(state[t], r, r))
    /\ UNCHANGED <<profile, conversations, clock, pre, mergeVars, parseVars>>

CareerMode(t) ==
    /\ pc[t] = "career_mode"
    /\ \E r \in LLMOutcomes(ReplyContents), e \in LLMOutcomes(ExtractionContents) :
          Handled(t, "career_mode", CareerGuidance(state[t], r, e))
    /\ UNCHANGED <<profile, conversations, clock, pre, mergeVars, parseVars>>

LearningMode(t) ==
    /\ pc[t] = "learning_mode"
    /\ \E r \in LLMOutcomes(ReplyContents) :
          Handled(t, "learning_mode", LearningAssistance(state[t], r))
    /\ UNCHANGED <<profile, conversations, clock, pre, mergeVars, parseVars>>

ProgressMode(t) ==
    /\ pc[t] = "progress_mode"
    /\ \E r \in LLMOutcomes(ReplyContents) :
          Handled(t, "progress_mode", ProgressReview(state[t], r))
    /\ UNCHANGED <<profile, conversations, clock, pre, mergeVars, parseVars>>

RecommendMode(t) ==
    /\ pc[t] = "recommend_mode"
    /\ \E r \in LLMOutcomes(ReplyContents) :
          Handled(t, "recommend_mode", CourseRecommendation(state[t], r))
    /\ UNCHANGED <<profile, conversations, clock, pre, mergeVars, parseVars>>

GeneralMode(t) ==
    /\ pc[t] = "general_mode"
    /\ \E r \in LLMOutcomes(ReplyContents) :
          Handled(t, "general_mode", GeneralConversation(state[t], r))
    /\ UNCHANGED <<profile, conversations, clock, pre, mergeVars, parseVars>>

\* update_user_profile_node: the patch, then the two conversation rows, each
\* committed on its own; a reply that is no str cannot be bound as content
UpdateProfileNode(t) ==
    /\ pc[t] = "update_profile"
    /\ LET s == state[t]
           patched == IF DOMAIN s.profile_updates # {}
                      THEN UpdateUserProfile(profile, s.profile_updates, clock)
                      ELSE {profile}
       IN \E row \in patched :
            LET afterUser == SaveConversationProfile(row, clock + 1) IN
            IF s.response.kind = "str"
            THEN /\ profile' = SaveConversationProfile(afterUser, clock + 2)
                 /\ conversations' =
                        SaveConversationRows(
                            SaveConversationRows(conversations, "user", s.last_message),
                            "assistant", s.response.text)
                 /\ Advance(t, "update_profile", s, "END", 0)
            ELSE /\ profile' = afterUser
                 /\ conversations' =
                        SaveConversationRows(conversations, "user", s.last_message)
                 /\ Raise(t, "update_profile", "StatementError", 0)
    /\ clock' = clock + 3
    /\ UNCHANGED <<pre, mergeVars, parseVars>>

----------------------------------------------------------------------------
(* Specification of a turn: one agent.invoke over a stored state *)

MergeIdle ==
    /\ mP = NoRow /\ mPatch = <<>> /\ mOnce = NoRow /\ mTwice = NoRow /\ mPhase = 0

ParseIdle == jText = <<>> /\ jResult = PNone /\ jPhase = 0

TurnsIdle ==
    /\ pc = [t \in Turns |-> "idle"]
    /\ state = [t \in Turns |-> Blank]
    /\ before = [t \in Turns |-> Snapshot(Blank)]
    /\ ran = [t \in Turns |-> <<>>]
    /\ error = [t \in Turns |-> ""]
    /\ clock = 2
    /\ pre = [t \in Turns |-> [profile |-> NoRow, conversations |-> <<>>]]

Init ==
    /\ TurnsIdle
    /\ \E st \in StoredStates : profile = st.profile /\ conversations = st.conversations
    /\ MergeIdle /\ ParseIdle

Next ==
    \E t \in SeqTurns :
        \/ \E init \in InitialStates : Invoke(t, init)
        \/ LoadContext(t)
        \/ SummarizeIfNeeded(t)
        \/ DetermineModeNode(t)
        \/ OnboardingMode(t)
        \/ CareerMode(t)
        \/ LearningMode(t)
        \/ ProgressMode(t)
        \/ RecommendMode(t)
        \/ GeneralMode(t)
        \/ UpdateProfileNode(t)

Spec == Init /\ [][Next]_vars

----------------------------------------------------------------------------
(* Properties of the classifier *)

HasRun(t, node) == \E i \in DOMAIN ran[t] : ran[t][i].node = node
LastRan(t) == ran[t][Len(ran[t])]
\* node `node` was the last to run in turn t, and it returned
JustRan(t, node) == ran[t] # <<>> /\ LastRan(t).node = node /\ error[t] = ""

PayloadPresent(s) == TruthyDict(s.onboarding_data)
NoCompletedCourses(s) == ~TruthySeq(s.completed_courses)
EmptyCareerContext(s) == DOMAIN Get(s.user_profile, "career_context", <<>>) = {}
FirstContact(s) == NoCompletedCourses(s) /\ EmptyCareerContext(s)

\* C1: whenever the turn carries an onboarding payload, the mode set by
\* determine_mode is onboarding, whatever the message, the completed courses,
\* the current course id and the stored career context.
C1_OnboardingPayloadWins ==
    \A t \in Turns :
        (HasRun(t, "determine_mode") /\ PayloadPresent(state[t]))
            => state[t].mode = "onboarding"

\* C1 witness: a classified turn with a payload in which every later rule has
\* something to match: first contact, an active course, a progress keyword.
C1_Witness ==
    \E t \in Turns :
        /\ JustRan(t, "determine_mode") /\ PayloadPresent(state[t])
        /\ state[t].mode = "onboarding"
        /\ FirstContact(state[t])
        /\ TruthyInt(state[t].current_course_id)
        /\ AnyIn(KW_COURSE_PROGRESS, Lower(state[t].last_message))

C3_ExistingUserInCourseLearns ==
    \A t \in Turns :
        (pc[t] = "END" /\ pre[t].profile.exists
            /\ ~PayloadPresent(state[t])
            /\ TruthyInt(state[t].current_course_id)
            /\ ~AnyIn(KW_COURSE_PROGRESS \cup KW_COURSE_NEXT \cup KW_COURSE_LEARN,
                      Lower(state[t].last_message)))
            => state[t].mode = "learning"

\* C4 (as claimed): past rules 1 and 2, with a current course id supplied, the
\* mode is progress on a progress keyword, else recommendation on a
\* recommendation keyword, else learning.
C4_CourseBranch ==
    \A t \in Turns :
        (HasRun(t, "determine_mode") /\ ~PayloadPresent(state[t])
            /\ ~FirstContact(state[t]) /\ state[t].current_course_id.some)
            => state[t].mode =
                 IF AnyIn(KW_COURSE_PROGRESS, Lower(state[t].last_message))
                 THEN "progress"
                 ELSE IF AnyIn(KW_COURSE_NEXT \cup KW_COURSE_LEARN,
                               Lower(state[t].last_message))
                 THEN "recommendation"
                 ELSE "learning"

\* C5: past rules 1 and 2, with no current course, the mode is progress on a
\* progress-review keyword, else career on a career keyword, else general;
\* never recommendation or learning.
C5_NoCourseBranch ==
    \A t \in Turns :
        (HasRun(t, "determine_mode") /\ ~PayloadPresent(state[t])
            /\ ~FirstContact(state[t]) /\ ~state[t].current_course_id.some)
            => /\ state[t].mode =
                    IF AnyIn(KW_PROGRESS, Lower(state[t].last_message))
                    THEN "progress"
                    ELSE IF AnyIn(KW_CAREER, Lower(state[t].last_message))
                    THEN "career"
                    ELSE "general"
               /\ state[t].mode \notin {"recommendation", "learning"}

\* C5 witness: no course, a message with both a career and a progress-review
\* keyword, classified progress.
C5_Witness ==
    \E t \in Turns :
        /\ JustRan(t, "determine_mode") /\ ~PayloadPresent(state[t])
        /\ ~FirstContact(state[t]) /\ ~state[t].current_course_id.some
        /\ AnyIn(KW_PROGRESS, Lower(state[t].last_message))
        /\ AnyIn(KW_CAREER, Lower(state[t].last_message))
        /\ state[t].mode = "progress"

\* C6: once determine_mode has run, the mode held by the turn (after
\* classification, after the handler, in the output) is one of the six modes
\* and the conditional edge has a handler for it.
C6_ModeClosed ==
    \A t \in Turns :
        HasRun(t, "determine_mode")
            => /\ state[t].mode \in Modes
               /\ Route(state[t].mode) # "no_edge"
               /\ error[t] # "KeyError"

\* C6 witness: a turn that ended in recommendation mode.
C6_Witness ==
    \E t \in Turns : pc[t] = "END" /\ state[t].mode = "recommendation"

----------------------------------------------------------------------------
(* Properties of the summarizer *)

\* C7 (as claimed): after the summarization step on a history longer than the
\* threshold, the turn's history is exactly its 5 most recent entries and the
\* summary is non-empty.
C7_LongHistoryTrimmed ==
    \A t \in Turns :
        (JustRan(t, "summarize_if_needed")
            /\ Len(before[t].conversation_history) > SUMMARY_THRESHOLD)
            => /\ Len(state[t].conversation_history) = RECENT_TAIL
               /\ state[t].conversation_history = Recent(before[t].conversation_history)
               /\ state[t].conversation_summary # <<>>

\* C8 (as claimed): on a history of at most the threshold the summarization
\* step makes no model call and leaves the turn's history and summary as they
\* were.
C8_ShortHistoryNoOp ==
    \A t \in Turns :
        (JustRan(t, "summarize_if_needed")
            /\ Len(before[t].conversation_history) <= SUMMARY_THRESHOLD)
            => /\ LastRan(t).calls = 0
               /\ state[t].conversation_history = before[t].conversation_history
               /\ state[t].conversation_summary = before[t].conversation_summary

\* C9 (as claimed): a failure of the summarizer's model call does not abort the
\* turn.
C9_SummarizerFailureTolerated ==
    \A t \in Turns :
        (ran[t] # <<>> /\ LastRan(t).node = "summarize_if_needed"
            /\ LastRan(t).calls = 1 /\ error[t] = "ModelError")
            => pc[t] # "failed"

----------------------------------------------------------------------------
(* Specification of the profile merge: update_user_profile applied to a stored
   row, and applied again with the same updates *)

Topics == { <<"Introduction to Smart Contracts">>, <<"Current chapter">> }

SeqsUpTo(S, n) == UNION {[1..k -> S] : k \in 0..n}
NoDuplicates(q) == \A i, j \in DOMAIN q : q[i] = q[j] => i = j

MergeMappings ==
    { <<>>,
      [target_role |-> JList(<<"Smart Contract Developer">>)],
      [target_role |-> JList(<<"Auditor">>), career_timeline |-> JStr("12")] }

\* stored identity fields: never set, or set by an earlier merge
MergeIdentities ==
    { [email |-> JNull, display_name |-> JNull],
      [email |-> JStr("old@x.y"), display_name |-> JStr("Ada")] }

\* stored rows: none, or a row whose challenges were left by earlier merges
MergeRows ==
    {NoRow}
    \cup { [CreateUserProfile EXCEPT !.career_context = cc,
                                     !.skill_profile = sk,
                                     !.learning_challenges = lc,
                                     !.email = id.email,
                                     !.display_name = id.display_name] :
             cc \in MergeMappings,
             sk \in {<<>>, [technical_level |-> JStr("beginner")]},
             lc \in {q \in SeqsUpTo(Topics, MaxChallenges) : NoDuplicates(q)},
             id \in MergeIdentities }

Entry(k, o) == IF o.some THEN k :> o.v ELSE <<>>

\* updates dicts: every field present or absent
MergePatches ==
    { Entry("career_context", cc) @@ Entry("skill_profile", sk)
        @@ Entry("learning_preferences", lp) @@ Entry("learning_challenges", lc)
        @@ Entry("email", em) @@ Entry("display_name", dn) :
        cc \in {None, Some(<<>>), Some([target_role |-> JList(<<"Auditor">>)]),
                Some([career_timeline |-> JStr("6")])},
        sk \in {None, Some([technical_level |-> JStr("advanced")])},
        lp \in {None, Some([style |-> JStr("hands-on")])},
        lc \in {None} \cup {Some(q) : q \in SeqsUpTo(Topics, MaxChallenges)},
        em \in {None, Some(JStr("")), Some(JStr("a@b.c"))},
        dn \in {None, Some(JNull)} }

InitMerge ==
    /\ TurnsIdle
    /\ profile = NoRow /\ conversations = <<>>
    /\ mP \in MergeRows
    /\ mPatch \in MergePatches
    /\ mOnce = NoRow /\ mTwice = NoRow /\ mPhase = 0
    /\ ParseIdle

ApplyOnce ==
    /\ mPhase = 0
    /\ mOnce' \in UpdateUserProfile(mP, mPatch, 1)
    /\ mPhase' = 1
    /\ UNCHANGED <<mP, mPatch, mTwice, turnVars, parseVars>>

ApplyAgain ==
    /\ mPhase = 1
    /\ mTwice' \in UpdateUserProfile(mOnce, mPatch, 2)
    /\ mPhase' = 2
    /\ UNCHANGED <<mP, mPatch, mOnce, turnVars, parseVars>>

NextMerge == ApplyOnce \/ ApplyAgain

SpecMerge == InitMerge /\ [][NextMerge]_vars

\* C10: applying the same patch a second time leaves career_context,
\* skill_profile, learning_preferences and the set of learning_challenges as
\* the first application left them.
C10_MergeIdempotent ==
    mPhase = 2 =>
        /\ mTwice.career_context = mOnce.career_context
        /\ mTwice.skill_profile = mOnce.skill_profile
        /\ mTwice.learning_preferences = mOnce.learning_preferences
        /\ Range(mTwice.learning_challenges) = Range(mOnce.learning_challenges)

\* C10 witness: a patch that changed a mapping and added to stored challenges,
\* applied twice.
C10_Witness ==
    /\ mPhase = 2
    /\ mP.exists /\ mP.learning_challenges # <<>>
    /\ mOnce.career_context # mP.career_context
    /\ Range(mOnce.learning_challenges) # Range(mP.learning_challenges)
    /\ Range(mP.learning_challenges) \cap Range(mPatch.learning_challenges) # {}

\* the row update_user_profile starts from
MergeBase == IF mP.exists THEN mP ELSE CreateUserProfile

MappingFields == {"career_context", "skill_profile", "learning_preferences"}

\* result is the shallow key-wise union of stored and patch, patch keys winning
KeywiseUnion(stored, patch, result) ==
    /\ DOMAIN result = DOMAIN stored \cup DOMAIN patch
    /\ \A k \in DOMAIN result :
          result[k] = IF k \in DOMAIN patch THEN patch[k] ELSE stored[k]

\* C11 (as claimed): after a merge every mapping field named by the patch is
\* the key-wise union of the stored mapping and the patch mapping, patch keys
\* taking the patch value; a mapping field the patch does not name is unchanged.
C11_MappingMerge ==
    mPhase >= 1 =>
        \A f \in MappingFields :
            IF f \in DOMAIN mPatch
            THEN KeywiseUnion(MergeBase[f], mPatch[f], mOnce[f])
            ELSE mOnce[f] = MergeBase[f]

IdentityFields == {"email", "display_name"}

\* C12 (as claimed): a merge overwrites email and display_name only with a
\* non-empty patch value; an empty or null patch value, like an absent one,
\* leaves the stored value unchanged.
C12_IdentityOverwrite ==
    mPhase >= 1 =>
        \A f \in IdentityFields :
            mOnce[f] = IF f \in DOMAIN mPatch /\ Truthy(mPatch[f])
                       THEN mPatch[f] ELSE MergeBase[f]

----------------------------------------------------------------------------
(* Specification of a session: turns of one wallet, one after the other, on a
   store that starts empty *)

Developer == <<"I", " ", "want to ", "become", " ", "a", " ", "blockchain developer">>
Explain == <<"Can you explain ", "what", " ", "a smart contract is?">>
InCourse == [id |-> Some(1), title |-> Some(ChapterTitle)]
NoCourse == [id |-> None, title |-> None]

\* one request for each way a turn can go
SessionInputs ==
    { InitialState(<<>>, <<>>, None, NoCourse,
                   <<"Career", " onboarding form submitted">>, Some(SampleForm)),
      InitialState(<<>>, <<>>, None, NoCourse, Developer, None),
      InitialState(<<>>, <<>>, Some(CourseList(1)), InCourse,
                   <<"I'm ", "stuck", " on this">>, None),
      InitialState(<<>>, <<>>, Some(CourseList(1)), InCourse,
                   <<"what", "'s my ", "progress">>, None),
      InitialState(<<>>, <<>>, Some(CourseList(1)), InCourse,
                   <<"what", " ", "next">>, None),
      InitialState(<<>>, <<>>, Some(CourseList(1)), NoCourse, Explain, None) }

\* the request has been answered (or has failed); the next request starts a
\* new run of the graph over what is stored
NextRequest(t) ==
    /\ pc[t] \in {"END", "failed"}
    /\ Len(conversations) <= 2 * (MaxTurns - 1)
    /\ pc' = [pc EXCEPT ![t] = "idle"]
    /\ state' = [state EXCEPT ![t] = Blank]
    /\ before' = [before EXCEPT ![t] = Snapshot(Blank)]
    /\ ran' = [ran EXCEPT ![t] = <<>>]
    /\ error' = [error EXCEPT ![t] = ""]
    /\ UNCHANGED <<profile, conversations, clock, pre, mergeVars, parseVars>>

InitSession ==
    /\ TurnsIdle
    /\ profile = NoRow /\ conversations = <<>>
    /\ MergeIdle /\ ParseIdle

NextSession ==
    \E t \in SeqTurns :
        \/ \E init \in SessionInputs : Invoke(t, init)
        \/ LoadContext(t)
        \/ SummarizeIfNeeded(t)
        \/ DetermineModeNode(t)
        \/ OnboardingMode(t)
        \/ CareerMode(t)
        \/ LearningMode(t)
        \/ ProgressMode(t)
        \/ RecommendMode(t)
        \/ GeneralMode(t)
        \/ UpdateProfileNode(t)
        \/ NextRequest(t)

SpecSession == InitSession /\ [][NextSession]_vars

(* Properties of a session *)

\* total_conversations of the stored row (0 while there is no row)
Count(row) == IF row.exists THEN row.total_conversations ELSE 0

\* C13: over a sequence of turns total_conversations never decreases, it is
\* larger after every completed turn than it was when the turn started (also
\* on a first turn, which creates the profile), and a turn that applies a
\* profile patch changes it only by the count of the records it saves.
C13_CountGrows ==
    /\ [](\A t \in SeqTurns :
            pc[t] = "END" => Count(profile) > Count(pre[t].profile))
    /\ [][/\ Count(profile') >= Count(profile)
          /\ Count(profile') # Count(profile) =>
                \E t \in SeqTurns :
                    /\ pc[t] = "update_profile"
                    /\ Count(profile') - Count(profile) = Len(conversations') - Len(conversations)]_vars

\* C13 witness: a later turn of the session completed after applying a patch
\* to a profile that had already counted records.
C13_Witness ==
    \E t \in SeqTurns :
        /\ pc[t] = "END"
        /\ Count(pre[t].profile) > 0
        /\ state[t].profile_updates # <<>>
        /\ Count(profile) = Count(pre[t].profile) + 2

----------------------------------------------------------------------------
(* Specification of the tolerant parser: _safe_extract_json applied to a text *)

Prose == "no json here"

ParserChunks ==
    { "{", "}", ",", "note: hi", "target_role: null",
      "target_role: [Blockchain Developer]", Prose, "42", Quote }

ParserTexts == SeqsUpTo(ParserChunks, MaxTextLen)

InitParse ==
    /\ TurnsIdle
    /\ profile = NoRow /\ conversations = <<>>
    /\ MergeIdle
    /\ jText \in ParserTexts /\ jResult = PNone /\ jPhase = 0

ApplyParser ==
    /\ jPhase = 0
    /\ jResult' = SafeExtractJson(jText)
    /\ jPhase' = 1
    /\ UNCHANGED <<jText, turnVars, mergeVars>>

NextParse == ApplyParser

SpecParse == InitParse /\ [][NextParse]_vars

\* text is a JSON object of members up to chunk k, then prose only
ObjectThenProse(text, k) ==
    /\ k < Len(text) /\ (k = 2 \/ (k >= 3 /\ k % 2 = 1))
    /\ text[1] = "{" /\ text[k] = "}"
    /\ \A i \in 2..(k - 1) :
          IF i % 2 = 0 THEN IsMember(text[i]) ELSE text[i] = ","
    /\ \A i \in (k + 1)..Len(text) : text[i] = Prose

\* the object the members text[2..k-1] spell, a repeated key keeping its last value
ObjectOf(text, k) ==
    LET at == {i \in 2..(k - 1) : IsMember(text[i])}
        lastAt(key) == CHOOSE i \in at :
                          /\ MemberOf(text[i]).k = key
                          /\ \A j \in at : MemberOf(text[j]).k = key => j <= i
    IN [key \in {MemberOf(text[i]).k : i \in at} |-> MemberOf(text[lastAt(key)]).v]

\* C14: for every text the parser returns a parsed structure or none, never an
\* error; an object followed by prose gives that object; prose alone gives none.
C14_ParserNeverRaises ==
    jPhase = 1 =>
        /\ jResult.t \in {"obj", "val"}
        /\ \A k \in 1..Len(jText) :
              ObjectThenProse(jText, k) => jResult = PObj(ObjectOf(jText, k))
        /\ (\A i \in DOMAIN jText : jText[i] = Prose) => jResult = PNone

\* C14 witness: an object followed by prose was parsed to that object.
C14_Witness ==
    /\ jPhase = 1
    /\ jText = <<"{", "note: hi", "}", Prose, Prose>>
    /\ jResult = PObj([note |-> JStr("hi")])

----------------------------------------------------------------------------
(* Properties of the handlers *)

\* turn t completed as an onboarding turn
OnboardingCompleted(t) ==
    /\ pc[t] = "END" /\ HasRun(t, "onboarding_mode")
    /\ state[t].onboarding_results.some

\* C15 (as claimed): after a completed onboarding turn careerProfile,
\* courseMatchAnalysis and additionalNotes of the onboarding result are
\* strings and suggestedCourses is a list.
C15_OnboardingResultTyped ==
    \A t \in Turns :
        OnboardingCompleted(t) =>
            LET res == state[t].onboarding_results.v IN
            /\ {"careerProfile", "courseMatchAnalysis", "additionalNotes",
                "suggestedCourses"} \subseteq DOMAIN res
            /\ res.careerProfile.t = "str"
            /\ res.courseMatchAnalysis.t = "str"
            /\ res.additionalNotes.t = "str"
            /\ res.suggestedCourses.t = "list"

\* C16 (as claimed): whatever text the model returns to an extraction prompt,
\* the onboarding handler and the career handler return a reply and the turn
\* goes on to persistence.
C16_ExtractionNeverFailsTurn ==
    \A t \in Turns :
        (ran[t] # <<>> /\ LastRan(t).node \in {"onboarding_mode", "career_mode"}
            /\ error[t] # "ModelError")
            => pc[t] = "update_profile" /\ error[t] = ""

HandlerNodes ==
    {"onboarding_mode", "career_mode", "learning_mode", "progress_mode",
     "recommend_mode", "general_mode"}

\* a model call inside a mode handler of turn t failed
HandlerModelCallFailed(t) ==
    /\ pc[t] = "failed" /\ error[t] = "ModelError"
    /\ LastRan(t).node \in HandlerNodes

\* C17 (as claimed): after a turn aborted by a failed model call in a handler
\* the stored profile (and whether there is one) and the stored conversation
\* records are what they were when the turn started.
C17_FailedTurnPersistsNothing ==
    \A t \in Turns :
        HandlerModelCallFailed(t) =>
            /\ profile = pre[t].profile
            /\ conversations = pre[t].conversations

----------------------------------------------------------------------------
(* Properties of persistence *)

\* the conversation records stored since turn t started
NewRecords(t) ==
    SubSeq(conversations, Len(pre[t].conversations) + 1, Len(conversations))

\* the profile mappings and challenges are as they were when turn t started
\* (a row created by load_context counting as no change)
PatchNotStored(t) ==
    LET was == IF pre[t].profile.exists THEN pre[t].profile ELSE CreateUserProfile
    IN /\ profile.career_context = was.career_context
       /\ profile.skill_profile = was.skill_profile
       /\ profile.learning_preferences = was.learning_preferences
       /\ profile.learning_challenges = was.learning_challenges

\* C18 (as claimed): in every state of a turn either both of its conversation
\* records are stored, or neither is and the stored profile holds no patch of
\* the turn.
C18_PersistenceAllOrNothing ==
    \A t \in Turns :
        pc[t] # "idle" =>
            \/ Len(NewRecords(t)) = 2
            \/ Len(NewRecords(t)) = 0 /\ PatchNotStored(t)

----------------------------------------------------------------------------
(* Properties of the pipeline *)

\* the names of the nodes that have run in turn t, in order
NodesRun(t) == [i \in DOMAIN ran[t] |-> ran[t][i].node]

\* the handler a classified mode selects
HandlerFor(mode) ==
    CASE mode = "onboarding" -> "onboarding_mode"
      [] mode = "career" -> "career_mode"
      [] mode = "learning" -> "learning_mode"
      [] mode = "progress" -> "progress_mode"
      [] mode = "recommendation" -> "recommend_mode"
      [] mode = "general" -> "general_mode"
      [] OTHER -> "none"

\* the one pass of turn t: the three opening stages, the handler of the
\* classified mode, persistence
Pipeline(t) ==
    <<"load_context", "summarize_if_needed", "determine_mode",
      HandlerFor(state[t].mode), "update_profile">>

\* what is stored for turn t is what its patch makes of the profile the turn
\* started from
StoredFromPatch(t) ==
    LET patch == state[t].profile_updates
        was == IF pre[t].profile.exists THEN pre[t].profile ELSE CreateUserProfile
    IN /\ patch = <<>> => PatchNotStored(t)
       /\ "learning_challenges" \in DOMAIN patch =>
             Range(profile.learning_challenges) =
                Range(was.learning_challenges) \cup Range(patch.learning_challenges)
       /\ ("career_context" \in DOMAIN patch /\ was.career_context = <<>>) =>
             profile.career_context = patch.career_context

\* C19: the nodes of a turn run once each in the order load context,
\* summarize, classify, the one handler of the classified mode, persist; a
\* completed turn has run all five; persistence leaves the handler's patch as
\* it was and stores that patch.
C19_OnePassOneHandler ==
    \A t \in Turns :
        /\ Len(NodesRun(t)) <= 5
        /\ \A i \in DOMAIN NodesRun(t) : NodesRun(t)[i] = Pipeline(t)[i]
        /\ pc[t] = "END" => Len(NodesRun(t)) = 5
        /\ JustRan(t, "update_profile") =>
              /\ state[t].profile_updates = before[t].profile_updates
              /\ StoredFromPatch(t)

\* C19 witness: a completed learning turn whose handler emitted a patch.
C19_Witness ==
    \E t \in Turns :
        /\ pc[t] = "END"
        /\ NodesRun(t)[4] = "learning_mode"
        /\ "learning_challenges" \in DOMAIN state[t].profile_updates

\* the records stored when turn t started are still there, unchanged
EarlierRecordsKept(t) ==
    /\ Len(conversations) >= Len(pre[t].conversations)
    /\ SubSeq(conversations, 1, Len(pre[t].conversations)) = pre[t].conversations

\* C20 (as claimed): a completed turn has appended exactly two records, the
\* user's message and then the assistant's reply; a turn that has not
\* completed has appended none; the records of earlier turns stay as they were.
C20_TwoRecordsPerTurn ==
    \A t \in Turns :
        pc[t] # "idle" =>
            /\ EarlierRecordsKept(t)
            /\ pc[t] = "END" =>
                  NewRecords(t) =
                     << [role |-> "user", content |-> state[t].last_message],
                        [role |-> "assistant", content |-> state[t].response.text] >>
            /\ pc[t] # "END" => NewRecords(t) = <<>>

----------------------------------------------------------------------------
(* Specification of overlapping turns: two requests of one wallet whose graph
   runs interleave node by node.  load_context is taken in its two steps, the
   read and the creation of a missing profile; persistence is one step. *)

\* what load_context returns for turn t once a profile row is there
ContextLoaded(t, row) ==
    Advance(t, "load_context",
            [state[t] EXCEPT
                 !.user_profile = GetUserProfile(row),
                 !.conversation_history =
                     GetConversationHistory(conversations, HISTORY_LIMIT),
                 !.profile_updates = <<>>],
            "summarize_if_needed", 0)

\* load_context up to `if not profile`: with a profile the node returns; with
\* none it goes on to create one.  (The history read of a turn that finds no
\* profile is taken at the creation step: no record is saved between the two
\* steps of a turn whose creation succeeds.)
LoadProfile(t) ==
    /\ pc[t] = "load_context"
    /\ IF profile.exists
       THEN ContextLoaded(t, profile)
       ELSE /\ pc' = [pc EXCEPT ![t] = "create_profile"]
            /\ UNCHANGED <<state, before, ran, error>>
    /\ UNCHANGED <<profile, conversations, clock, pre, mergeVars, parseVars>>

\* create_user_profile: the INSERT of a second row for the wallet (the
\* primary key) fails at commit and the exception leaves the node
CreateProfile(t) ==
    /\ pc[t] = "create_profile"
    /\ IF profile.exists
       THEN /\ Raise(t, "load_context", "IntegrityError", 0)
            /\ UNCHANGED profile
       ELSE /\ profile' = CreateUserProfile
            /\ ContextLoaded(t, CreateUserProfile)
    /\ UNCHANGED <<conversations, clock, pre, mergeVars, parseVars>>

\* stored career contexts of a returning user
StoredRoleLists == {q \in SeqsUpTo({"Smart Contract Developer"}, MaxStoredRoles) : Len(q) >= 1}

EarlierChallenge == <<"Gas and fees">>

\* the stores two overlapping requests can find: no profile, or the profile
\* and records of an earlier exchange
OverlapStores ==
    { [profile |-> NoRow, conversations |-> <<>>] }
    \cup { [profile |-> [CreateUserProfile EXCEPT
                            !.career_context = [target_role |-> JList(q)],
                            !.learning_challenges = <<EarlierChallenge>>,
                            !.total_conversations = 2, !.last_active = 1],
            conversations |-> StoredRows(2)] : q \in StoredRoleLists }

\* requests that talk about a career, and requests that report a difficulty
\* in a course chapter with or without a title
OverlapInputs ==
    { InitialState(<<>>, <<>>, None, NoCourse, Developer, None),
      InitialState(<<>>, <<>>, Some(CourseList(1)), NoCourse, Developer, None),
      InitialState(<<>>, <<>>, Some(CourseList(1)), InCourse,
                   <<"I'm ", "stuck", " on this">>, None),
      InitialState(<<>>, <<>>, Some(CourseList(1)), [id |-> Some(1), title |-> None],
                   <<"I'm ", "stuck", " on this">>, None) }

InitOverlap ==
    /\ TurnsIdle
    /\ \E st \in OverlapStores : profile = st.profile /\ conversations = st.conversations
    /\ MergeIdle /\ ParseIdle

NextOverlap ==
    \E t \in Turns :
        \/ \E init \in OverlapInputs : Invoke(t, init)
        \/ LoadProfile(t)
        \/ CreateProfile(t)
        \/ SummarizeIfNeeded(t)
        \/ DetermineModeNode(t)
        \/ CareerMode(t)
        \/ LearningMode(t)
        \/ UpdateProfileNode(t)

SpecOverlap == InitOverlap /\ [][NextOverlap]_vars

----------------------------------------------------------------------------
(* Properties of overlapping turns *)

\* the career_context keys for which turn t extracted a value its snapshot
\* did not hold
ExtractedKeys(t) ==
    LET patch == state[t].profile_updates
        snap == Get(state[t].user_profile, "career_context", <<>>)
    IN IF "career_context" \in DOMAIN patch
       THEN {k \in DOMAIN patch.career_context :
                k \notin DOMAIN snap \/ snap[k] # patch.career_context[k]}
       ELSE {}

\* both turns completed and read the same profile snapshot, each before the
\* other persisted
Overlapped ==
    /\ \A t \in Turns : pc[t] = "END"
    /\ state[1].user_profile = state[2].user_profile

\* C21 (as claimed): when two turns of one user overlap and persistence applies
\* each patch atomically, no update is lost: after both have persisted, every
\* career_context key a turn extracted holds that turn's value, unless the
\* other turn extracted a value for the same key.
C21_NoLostUpdate ==
    Overlapped =>
        \A t \in Turns : \A k \in ExtractedKeys(t) :
            \/ \E o \in Turns \ {t} : k \in ExtractedKeys(o)
            \/ /\ k \in DOMAIN profile.career_context
               /\ profile.career_context[k] = state[t].profile_updates.career_context[k]

----------------------------------------------------------------------------
(* Specification of a study session: learning turns of one wallet, one after
   the other, in a course chapter with or without a title *)

StudyInputs ==
    { InitialState(<<>>, <<>>, Some(CourseList(1)), lc, m, None) :
          lc \in {InCourse, [id |-> Some(1), title |-> None]},
          m \in {<<"I'm ", "stuck", " on this">>, Explain} }

NextStudy ==
    \E t \in SeqTurns :
        \/ \E init \in StudyInputs : Invoke(t, init)
        \/ LoadContext(t)
        \/ SummarizeIfNeeded(t)
        \/ DetermineModeNode(t)
        \/ LearningMode(t)
        \/ UpdateProfileNode(t)
        \/ NextRequest(t)

SpecStudy == InitSession /\ [][NextStudy]_vars

(* Properties of the learning challenges *)

\* the label a learning turn files a difficulty under
TopicOf(s) ==
    IF TruthySeq(s.current_chapter_title) THEN s.current_chapter_title.v ELSE DefaultTopic

\* turn t completed in the learning handler on a message that reports a
\* difficulty
ReportedStuck(t) ==
    /\ pc[t] = "END"
    /\ HasRun(t, "learning_mode")
    /\ AnyIn(KW_DIFFICULTY, Lower(state[t].last_message))

\* C22: the stored learning_challenges never holds an entry twice, and after a
\* completed learning turn that reports a difficulty the chapter title (the
\* default label when there is no title) is stored exactly once, also when it
\* was stored already.
C22_ChallengesNoDuplicates ==
    /\ NoDuplicates(profile.learning_challenges)
    /\ \A t \in SeqTurns :
          ReportedStuck(t) =>
              Cardinality({i \in DOMAIN profile.learning_challenges :
                              profile.learning_challenges[i] = TopicOf(state[t])}) = 1

\* C22 witness: stuck again on a chapter already stored as a challenge, next
\* to the default label of a turn without a title.
C22_Witness ==
    \E t \in SeqTurns :
        /\ ReportedStuck(t)
        /\ TopicOf(state[t]) \in Range(pre[t].profile.learning_challenges)
        /\ DefaultTopic \in Range(profile.learning_challenges)
        /\ ChapterTitle \in Range(profile.learning_challenges)

----------------------------------------------------------------------------
(* Properties of profile creation *)

\* C23 (as claimed): there is one profile row per wallet at most (the store
\* holds one row or none); once a turn has passed load_context the row exists,
\* and when it was created there it holds the empty defaults; this also holds
\* when two first turns interleave, neither of which is then stopped in
\* load_context.
C23_OneProfilePerUser ==
    \A t \in Turns :
        /\ (HasRun(t, "load_context") /\ ~pre[t].profile.exists) =>
              /\ profile.exists
              /\ pc[t] = "summarize_if_needed" =>
                    state[t].user_profile = GetUserProfile(CreateUserProfile)
        /\ ~(pc[t] = "failed" /\ LastRan(t).node = "load_context")

----------------------------------------------------------------------------
(* Properties of the reply *)

\* C24 (as claimed): in every mode and for both shapes of the model response
\* the reply a handler hands on is a plain string, so that the turn returns
\* and persists it; persistence never stops on the reply.
C24_ReplyIsPlainString ==
    \A t \in Turns :
        /\ pc[t] \in {"update_profile", "END"} => state[t].response.kind = "str"
        /\ ~(pc[t] = "failed" /\ LastRan(t).node = "update_profile")

----------------------------------------------------------------------------
(* Properties of the handlers' patches *)

\* the career_context key each extracted field is filed under
CareerKeys ==
    [target_role |-> "target_role", timeline |-> "career_timeline",
     motivation |-> "primary_motivation"]

\* the fields of an extraction answer that hold a non-empty value
ExtractedFields(data) ==
    IF data.t = "obj"
    THEN {f \in DOMAIN CareerKeys : f \in DOMAIN data.obj /\ Truthy(data.obj[f])}
    ELSE {}

\* C25 (as claimed): a career turn that is about to run its handler gets, for
\* every reply and extraction answer the handler returns on, a non-empty patch
\* exactly when the extraction holds a non-empty target role, timeline or
\* motivation; the patch is then a career_context that keeps every key of the
\* snapshot, with its old value unless the extraction holds a new one.
C25_CareerPatch ==
    \A t \in Turns :
        pc[t] = "career_mode" =>
            \A r \in LLMOutcomes(ReplyContents), e \in LLMOutcomes(ExtractionContents) :
                LET res == CareerGuidance(state[t], r, e)
                    got == ExtractedFields(NewCareerData(e.content))
                    snap == Get(state[t].user_profile, "career_context", <<>>)
                    patch == res.out.profile_updates
                IN res.err = "" =>
                      /\ patch # <<>> <=> got # {}
                      /\ patch # <<>> =>
                            /\ DOMAIN patch = {"career_context"}
                            /\ \A k \in DOMAIN snap :
                                  /\ k \in DOMAIN patch.career_context
                                  /\ k \notin {CareerKeys[f] : f \in got} =>
                                        patch.career_context[k] = snap[k]

\* the learning handler of turn t has just returned
LearningHandled(t) == pc[t] = "update_profile" /\ LastRan(t).node = "learning_mode"

\* C26: the learning handler emits a patch exactly when the lower-cased
\* message contains a difficulty keyword; the patch is then a
\* learning_challenges list that holds the chapter title (the default label
\* when there is no title); otherwise the patch is empty.
C26_LearningPatch ==
    \A t \in Turns :
        LearningHandled(t) =>
            LET patch == state[t].profile_updates IN
            /\ patch # <<>> <=> AnyIn(KW_DIFFICULTY, Lower(state[t].last_message))
            /\ patch # <<>> =>
                  /\ DOMAIN patch = {"learning_challenges"}
                  /\ TopicOf(state[t]) \in Range(patch.learning_challenges)

\* C26 witness: a difficulty reported in a course without a chapter title is
\* filed under the default label.
C26_Witness ==
    \E t \in Turns :
        /\ LearningHandled(t)
        /\ AnyIn(KW_DIFFICULTY, Lower(state[t].last_message))
        /\ ~TruthySeq(state[t].current_chapter_title)
        /\ DefaultTopic \in Range(state[t].profile_updates.learning_challenges)

\* the modes whose handlers only answer
AnswerOnlyModes == {"progress", "recommendation", "general"}

\* C27: a completed progress, recommendation or general turn has an empty
\* patch and leaves the stored profile as it was when the turn started (as
\* load_context created it, for a new wallet) except for total_conversations
\* and last_active; it has stored its two conversation records.
C27_AnswerOnlyFrame ==
    \A t \in Turns :
        (pc[t] = "END" /\ state[t].mode \in AnswerOnlyModes) =>
            LET was == IF pre[t].profile.exists THEN pre[t].profile ELSE CreateUserProfile
            IN /\ state[t].profile_updates = <<>>
               /\ [profile EXCEPT !.total_conversations = was.total_conversations,
                                  !.last_active = was.last_active] = was
               /\ profile.total_conversations = was.total_conversations + 2
               /\ Len(NewRecords(t)) = 2

\* C27 witness: a progress or general turn completed on a profile
\* that holds a career context.
C27_Witness ==
    \E t \in Turns :
        /\ pc[t] = "END"
        /\ state[t].mode \in {"progress", "general"}
        /\ pre[t].profile.career_context # <<>>
        /\ profile.career_context = pre[t].profile.career_context

----------------------------------------------------------------------------
(* Properties of the tolerant parser's two attempts *)

\* the span from the first "{" to the last "}" of text, <<>> when there is none
BraceSpan(text) ==
    LET opens == {i \in DOMAIN text : text[i] = "{"}
        closes == {i \in DOMAIN text : text[i] = "}"}
        first == CHOOSE i \in opens : \A j \in opens : i <= j
        last == CHOOSE i \in closes : \A j \in closes : j <= i
    IN IF opens # {} /\ closes # {} /\ first < last
       THEN SubSeq(text, first, last) ELSE <<>>

\* C28 (as claimed): when the text holds a brace span that does not parse, the
\* parser goes on to the trimmed full text and returns what that parses to;
\* it returns none only when both attempts fail.
C28_SecondAttempt ==
    (jPhase = 1 /\ BraceSpan(jText) # <<>> /\ JsonLoads(BraceSpan(jText)).t = "error") =>
        LET whole == JsonLoads(StripWs(jText))
        IN jResult = IF whole.t = "error" THEN PNone ELSE whole

----------------------------------------------------------------------------
(* Specification of the learning-mode entry point: student_learning_mode
   invokes the graph with mode "learning" and a completed_courses list *)

LearningEntryStates ==
    { [InitialState(<<>>, <<>>, Some(CourseList(n)), lc, m, None) EXCEPT !.mode = "learning"] :
          n \in 0..MaxCompleted, lc \in LearningContexts, m \in Messages }

NextLearning ==
    \E t \in SeqTurns :
        \/ \E init \in LearningEntryStates : Invoke(t, init)
        \/ LoadContext(t)
        \/ SummarizeIfNeeded(t)
        \/ DetermineModeNode(t)
        \/ CareerMode(t)
        \/ LearningMode(t)
        \/ ProgressMode(t)
        \/ RecommendMode(t)
        \/ GeneralMode(t)
        \/ UpdateProfileNode(t)

SpecLearning == Init /\ [][NextLearning]_vars

\* C29 (as claimed): a turn that enters through the learning-mode entry point
\* is classified as learning whatever its message and learning context, is
\* handled by the learning handler only, and returns mode learning.
C29_LearningEntryLearns ==
    \A t \in SeqTurns :
        /\ pc[t] \in {"career_mode", "learning_mode", "progress_mode", "recommend_mode",
                      "general_mode", "update_profile", "END"} =>
              state[t].mode = "learning"
        /\ \A i \in DOMAIN ran[t] :
              ran[t][i].node \in HandlerNodes => ran[t][i].node = "learning_mode"

----------------------------------------------------------------------------
(* Properties of the turn output *)

\* profile_updated of the response: bool(result.get("profile_updates"))
ProfileUpdated(s) == DOMAIN s.profile_updates # {}

\* C30 (as claimed): the profile_updated flag of a completed turn is true only
\* if the turn changed career_context, skill_profile, learning_preferences or
\* learning_challenges of the stored profile, and it is false for every turn
\* whose patch is empty.
C30_FlagMeansChange ==
    \A t \in SeqTurns :
        pc[t] = "END" =>
            /\ ProfileUpdated(state[t]) => ~PatchNotStored(t)
            /\ state[t].profile_updates = <<>> => ~ProfileUpdated(state[t])

----------------------------------------------------------------------------
(* Properties of the turn input contract *)

\* C31 (as claimed): for every turn input, with or without a course context
\* and a completed-courses list, a turn stops only when one of its model calls
\* failed: the handler the classifier selected returns a reply and the turn
\* reaches persistence.
C31_OptionalContextCompletes ==
    \A t \in Turns :
        pc[t] = "failed" => error[t] = "ModelError"

----------------------------------------------------------------------------
(* Properties of the prompt *)

\* the messages list career_guidance, learning_assistance and
\* general_conversation hand to the model: the system prompt, the history
\* channel as the handler finds it, the current message
PromptMessages(s) ==
    <<[role |-> "system", content |-> <<"system prompt">>, created_at |-> FALSE]>>
    \o s.conversation_history
    \o <<[role |-> "user", content |-> s.last_message, created_at |-> FALSE]>>

\* C32 (as claimed): the prompt of a career, learning or general turn is the
\* system instruction, then the history as loaded at turn start (its recent
\* tail when it was summarized), each record once and in order, then the
\* current user message.
C32_PromptHistoryOnce ==
    \A t \in SeqTurns :
        pc[t] \in {"career_mode", "learning_mode", "general_mode"} =>
            LET loaded == GetConversationHistory(pre[t].conversations, HISTORY_LIMIT)
                p == PromptMessages(state[t])
            IN /\ p[1].role = "system"
               /\ p[Len(p)].role = "user" /\ p[Len(p)].content = state[t].last_message
               /\ SubSeq(p, 2, Len(p) - 1) =
                     IF Len(loaded) > SUMMARY_THRESHOLD THEN Recent(loaded) ELSE loaded

----------------------------------------------------------------------------
(* Properties of summarization in an orchestrated turn *)

\* C33 (as claimed): for a wallet with more than 15 stored conversation
\* records, load_context hands the summarizer a history longer than the
\* threshold, and the summarization step of that turn leaves the 5 most recent
\* entries and a summary.
C33_SummarizationReachable ==
    \A t \in Turns :
        Len(pre[t].conversations) > SUMMARY_THRESHOLD =>
            /\ (JustRan(t, "load_context") /\ before[t].conversation_history = <<>>) =>
                  Len(state[t].conversation_history) > SUMMARY_THRESHOLD
            /\ JustRan(t, "summarize_if_needed") =>
                  /\ Len(state[t].conversation_history) = RECENT_TAIL
                  /\ state[t].conversation_summary # <<>>

----------------------------------------------------------------------------
(* Properties of the onboarding turn in a session *)

\* the wallet's only completed turn before turn t was an onboarding form
AfterOnboardingOnly(t) ==
    /\ Len(pre[t].conversations) = 2
    /\ pre[t].conversations[1].content = <<"Career", " onboarding form submitted">>

\* C34: an onboarding turn emits no patch and leaves the stored career_context
\* as it was; the wallet's next chat turn, with no completed courses and no
\* onboarding payload, is classified as career.
C34_OnboardingStoresNoCareer ==
    \A t \in SeqTurns :
        /\ (HasRun(t, "onboarding_mode") /\ error[t] = "") =>
              /\ state[t].profile_updates = <<>>
              /\ profile.career_context =
                    (IF pre[t].profile.exists THEN pre[t].profile.career_context ELSE <<>>)
        /\ (AfterOnboardingOnly(t) /\ HasRun(t, "determine_mode")
                /\ ~PayloadPresent(state[t]) /\ NoCompletedCourses(state[t])) =>
              /\ state[t].user_profile.career_context = <<>>
              /\ state[t].mode = "career"

\* C34 witness: the chat turn after a completed onboarding turn went to the
\* career handler with an empty stored career_context.
C34_Witness ==
    \E t \in SeqTurns :
        /\ AfterOnboardingOnly(t)
        /\ HasRun(t, "career_mode")
        /\ ~PayloadPresent(state[t])
        /\ state[t].user_profile.career_context = <<>>

----------------------------------------------------------------------------
(* Properties of overlapping learning turns *)

\* both turns completed as learning turns and loaded the profile before
\* either persisted
LearningOverlapped ==
    /\ \A t \in Turns : pc[t] = "END" /\ HasRun(t, "learning_mode")
    /\ state[1].user_profile.total_conversations =
          state[2].user_profile.total_conversations

\* C35: when two learning turns of one wallet overlap and each patch is
\* applied atomically, the stored learning_challenges after both have
\* persisted holds every entry stored before and every entry either turn
\* added, whichever turn persisted first.
C35_ChallengesUnionUnderOverlap ==
    LearningOverlapped =>
        Range(profile.learning_challenges) =
            UNION {Range(pre[t].profile.learning_challenges) : t \in Turns}
            \cup {TopicOf(state[t]) : t \in {u \in Turns : state[u].profile_updates # <<>>}}

\* C35 witness: two overlapping turns filed different topics next to one
\* stored before.
C35_Witness ==
    /\ LearningOverlapped
    /\ TopicOf(state[1]) # TopicOf(state[2])
    /\ Range(profile.learning_challenges) = {EarlierChallenge, ChapterTitle, DefaultTopic}

====
